---- MODULE Spec2Model ----
(***************************************************************************)
(* SSERelayFeatureStore (internal/store/relay_feature_store.go): a feature *)
(* store wrapper that writes to an underlying ld.FeatureStore and then     *)
(* publishes SSE events on three publishers (all, flags, ping), plus the   *)
(* three Replay repositories that bootstrap a connecting subscriber.       *)
(*                                                                         *)
(* Init, Upsert and Delete are called from one ingestion path (process     *)
(* "mutator").  Every access of the handler to a shared object (the store, *)
(* a publisher) is one step of the mutator, so that the Replay goroutines  *)
(* interleave with it exactly where the Go scheduler lets them.            *)
(***************************************************************************)
EXTENDS Integers, Sequences, FiniteSets, TLC

\* ------------------------------------------------------------------ bounds
MaxVersion == 2     \* item versions are 1..MaxVersion
MaxOps == 2         \* number of Init/Upsert/Delete calls in a behaviour
MaxTicks == 2       \* ticks and heartbeats are counted up to here, then no further

\* ------------------------------------------------------------------ data
Features == "features"
Segments == "segments"
Kinds == {Features, Segments}
Keys == {"k1"}
Versions == 1..MaxVersion
\* The model follows one connecting subscriber and the Replay goroutine started
\* for it (replay goroutines share nothing with each other).
Replays == {"r1"}

dataKindApiName == [k \in Kinds |-> IF k = Features THEN "flags" ELSE "segments"]

\* A Go map[string]ld.VersionedData is a function on a subset of Keys; a nil
\* map reads like the empty one.
EmptyMap == [k \in {} |-> 0]
Item(key, version, deleted) == [key |-> key, version |-> version, deleted |-> deleted]
Maps == UNION {[S -> {Item(k, v, FALSE) : k \in Keys, v \in Versions}] : S \in SUBSET Keys}
WellKeyed(m) == \A k \in DOMAIN m : m[k].key = k
\* the arguments of Init: map[ld.VersionedDataKind]map[string]ld.VersionedData,
\* with any of the kinds possibly missing
AllDatas == UNION {[S -> {m \in Maps : WellKeyed(m)}] : S \in SUBSET Kinds}
\* allData[kind] in Go: the zero value (nil map) for a missing kind
MapOf(allData, kind) == IF kind \in DOMAIN allData THEN allData[kind] ELSE EmptyMap

\* --------------------------------------- the underlying ld.FeatureStore
\* Contents: per kind, a map key -> item, tombstones (deleted = TRUE) included.
StoreInit(allData) == [k \in Kinds |-> MapOf(allData, k)]

\* Upsert keeps the stored item when its version is not older (silent no-op).
StoreUpsert(s, kind, item) ==
  IF item.key \in DOMAIN s[kind] /\ s[kind][item.key].version >= item.version
  THEN s
  ELSE [s EXCEPT ![kind] = [k \in DOMAIN s[kind] \cup {item.key} |->
                             IF k = item.key THEN item ELSE s[kind][k]]]

\* Delete is an upsert of a tombstone with the given version.
StoreDelete(s, kind, key, version) == StoreUpsert(s, kind, Item(key, version, TRUE))

\* Get: the item, or nil (the empty set here) when missing or tombstoned.
StoreGet(s, kind, key) ==
  IF key \in DOMAIN s[kind] /\ ~s[kind][key].deleted THEN {s[kind][key]} ELSE {}

\* All: the items of the kind that are not tombstones.
StoreAll(s, kind) ==
  [k \in {x \in DOMAIN s[kind] : ~s[kind][x].deleted} |-> s[kind][k]]

\* ------------------------------------------------------------------ events
makeUpsertEvent(kind, item) ==
  [type |-> "patch", path |-> "/" \o dataKindApiName[kind] \o "/" \o item.key, data |-> item]

makeFlagsUpsertEvent(item) ==
  [type |-> "patch", path |-> "/" \o item.key, data |-> item]

makeDeleteEvent(kind, key, version) ==
  [type |-> "delete", path |-> "/" \o dataKindApiName[kind] \o "/" \o key, version |-> version]

makeFlagsDeleteEvent(key, version) ==
  [type |-> "delete", path |-> "/" \o key, version |-> version]

\* faulty variant: the two maps end up under each other's name
makePutEventSwapped(flags, segments) ==
  [type |-> "put",
   data |-> [flags    |-> [k \in DOMAIN segments |-> segments[k]],
             segments |-> [k \in DOMAIN flags |-> flags[k]]]]

makePutEvent(flags, segments) ==
  [type |-> "put",
   data |-> [flags    |-> [k \in DOMAIN flags |-> flags[k]],
             segments |-> [k \in DOMAIN segments |-> segments[k]]]]

makeFlagsPutEvent(flags) == [type |-> "put", data |-> flags]

makePingEvent == [type |-> "ping", data |-> " "]

\* ------------------------------------------------------------------ state
VARIABLES
  store,        \* contents of the underlying store
  initialized,  \* store.Initialized()
  pc,           \* position of the mutator in its current call
  call,         \* the current (or last) call: its arguments and what it saw
  ret,          \* what the last call returned: "nil", "StoreWriteError", "StoreReadError"
  nOps,         \* calls started so far; a call is known by its number
  allLog,       \* the Publish calls the current (or last) call made on allPublisher
  flagsLog,     \* the same on flagsPublisher
  pingLog,      \* the same on pingPublisher
  rp,           \* the Replay goroutines and the subscribers they serve
  hist,         \* history: every store write and Publish call so far, when kept
  hb,           \* the heartbeat goroutine and the PublishComment calls it made
  rd            \* the last Get, All or Initialized call and what it returned

vars == <<store, initialized, pc, call, ret, nOps, allLog, flagsLog, pingLog, rp, hist, hb, rd>>

\* seq, writeErr, applied and reread are history: the number of the call,
\* whether its store write failed, whether the write changed the store, and how
\* Upsert's re-read ended ("none" before it, then "err", "nil" or "item").
NoCall == [op |-> "none", kind |-> Features, key |-> "", version |-> 0,
           allData |-> EmptyMap, seq |-> 0, writeErr |-> FALSE, applied |-> FALSE,
           newItem |-> {}, reread |-> "none"]

IdleReplay == [pc |-> "idle", channel |-> "none", flags |-> EmptyMap, segments |-> EmptyMap,
               out |-> <<>>, closed |-> FALSE, live |-> {},
               initAtInvoke |-> FALSE, quiet |-> FALSE,
               sawInit |-> FALSE, readErr |-> FALSE,
               flagsSeq |-> 0, segmentsSeq |-> 0, sawPending |-> FALSE]

\* The history of all calls is kept in the behaviours of SpecOrder only (on).
NoHist == [on |-> FALSE, writes |-> <<>>, all |-> <<>>, flags |-> <<>>, ping |-> <<>>]

\* relay.keys(): the API key is the only channel name
apiKey == "sdk-key"
keys == <<apiKey>>

NoComment == [n |-> 0, channels |-> <<>>, text |-> ""]
\* NewSSERelayFeatureStore(..., heartbeatInterval): the goroutine of lines 58-64
\* exists (and starts with a heartbeat) only for a positive interval.
Heartbeat(heartbeatInterval) ==
  [interval |-> heartbeatInterval,
   pc |-> IF heartbeatInterval > 0 THEN "beatAll" ELSE "off",
   ticks |-> 0, beats |-> 0,
   all |-> NoComment, flags |-> NoComment, ping |-> NoComment]

NoRead == [op |-> "none", kind |-> Features, key |-> "", storeErr |-> FALSE, err |-> FALSE,
           item |-> {}, items |-> EmptyMap, flag |-> FALSE]

\* the initial state but for the history switch and the heartbeat interval
Constructed ==
  /\ store = [k \in Kinds |-> EmptyMap]
  /\ initialized = FALSE
  /\ pc = "idle"
  /\ call = NoCall
  /\ ret = "nil"
  /\ nOps = 0
  /\ allLog = <<>>
  /\ flagsLog = <<>>
  /\ pingLog = <<>>
  /\ rp = [r \in Replays |-> IdleReplay]
  /\ rd = NoRead

Init ==
  /\ hist = NoHist
  /\ hb = Heartbeat(0)
  /\ rd = NoRead
  /\ store = [k \in Kinds |-> EmptyMap]
  /\ initialized = FALSE
  /\ pc = "idle"
  /\ call = NoCall
  /\ ret = "nil"
  /\ nOps = 0
  /\ allLog = <<>>
  /\ flagsLog = <<>>
  /\ pingLog = <<>>
  /\ rp = [r \in Replays |-> IdleReplay]

\* ------------------------------------------------------------- publishers
\* One Publish call: the event, and (history) the call that made it.
Pub(ev) == [event |-> ev, op |-> call.op, kind |-> call.kind, seq |-> call.seq]

\* The publisher hands a published event to every subscriber registered on the
\* channel; a subscriber is registered from the moment its Replay was invoked.
\* live is the set of calls whose event the subscriber received that way (kept
\* for the subscribers of the all and the flags channel).
Deliver(channel) ==
  [r \in DOMAIN rp |->
     IF rp[r].pc # "idle" /\ rp[r].channel = channel
     THEN [rp[r] EXCEPT !.live = @ \cup {[seq |-> call.seq, op |-> call.op, kind |-> call.kind]}]
     ELSE rp[r]]

\* history of a Publish call: the call that made it and the event's type
Track(channel, ev) ==
  IF hist.on
  THEN [hist EXCEPT ![channel] = Append(@, [seq |-> call.seq, type |-> ev.type,
                                             kind |-> call.kind, key |-> call.key])]
  ELSE hist

\* history of a store write that succeeded
TrackWrite(c, seq, s) ==
  IF hist.on
  THEN [hist EXCEPT !.writes = Append(@, [seq |-> seq, op |-> c.op, kind |-> c.kind,
                                           key |-> c.key, store |-> s])]
  ELSE hist

PublishAll(ev, next) ==
  /\ hist' = Track("all", ev)
  /\ UNCHANGED <<hb, rd>>
  /\ allLog' = Append(allLog, Pub(ev))
  /\ rp' = Deliver("all")
  /\ pc' = next
  /\ UNCHANGED <<store, initialized, call, ret, nOps, flagsLog, pingLog>>

PublishFlags(ev, next) ==
  /\ hist' = Track("flags", ev)
  /\ UNCHANGED <<hb, rd>>
  /\ flagsLog' = Append(flagsLog, Pub(ev))
  /\ rp' = Deliver("flags")
  /\ pc' = next
  /\ UNCHANGED <<store, initialized, call, ret, nOps, allLog, pingLog>>

\* the ping is the last statement before "return nil"
PublishPing(ev) ==
  /\ hist' = Track("ping", ev)
  /\ UNCHANGED <<hb, rd>>
  /\ pingLog' = Append(pingLog, Pub(ev))
  /\ UNCHANGED rp
  /\ pc' = "idle"
  /\ ret' = "nil"
  /\ UNCHANGED <<store, initialized, call, nOps, allLog, flagsLog>>

\* ---------------------------------------------------------------- mutator
\* faulty variant: the error of the store write is not checked
BeginUnchecked(c, ok, s, next) ==
  /\ pc = "idle"
  /\ nOps < MaxOps
  /\ nOps' = nOps + 1
  /\ allLog' = <<>>
  /\ flagsLog' = <<>>
  /\ pingLog' = <<>>
  /\ store' = IF ok THEN s ELSE store
  /\ hist' = IF ok THEN TrackWrite(c, nOps + 1, s) ELSE hist
  /\ call' = [c EXCEPT !.seq = nOps + 1, !.writeErr = ~ok, !.applied = ok]
  /\ pc' = next
  /\ ret' = "pending"
  /\ rp' = [r \in DOMAIN rp |-> [rp[r] EXCEPT !.quiet = FALSE]]
  /\ UNCHANGED <<hb, rd>>

\* Entry of a call: the arguments are recorded and the store write is made.
\* ok = FALSE is the store returning an error (its contents are unchanged).
Begin(c, ok, s, next) ==
  /\ pc = "idle"
  /\ nOps < MaxOps
  /\ nOps' = nOps + 1
  /\ allLog' = <<>>
  /\ flagsLog' = <<>>
  /\ pingLog' = <<>>
  /\ IF ok
     THEN /\ store' = s
          /\ hist' = TrackWrite(c, nOps + 1, s)
          /\ call' = [c EXCEPT !.seq = nOps + 1, !.applied = (s # store \/ c.op = "Init")]
          /\ pc' = next
          /\ ret' = "pending"
     ELSE /\ call' = [NoCall EXCEPT !.op = c.op, !.seq = nOps + 1, !.writeErr = TRUE]
          /\ pc' = "idle"
          /\ ret' = "StoreWriteError"
          /\ UNCHANGED <<store, hist>>
  /\ rp' = [r \in DOMAIN rp |-> [rp[r] EXCEPT !.quiet = FALSE]]
  /\ UNCHANGED <<hb, rd>>

\* Init, lines 91-98: store.Init, return err on failure
RelayInit(allData, ok) ==
  /\ Begin([NoCall EXCEPT !.op = "Init", !.allData = allData], ok, StoreInit(allData), "initPubAll")
  /\ initialized' = (initialized \/ ok)

InitPublishAll ==
  /\ pc = "initPubAll"
  /\ PublishAll(makePutEvent(MapOf(call.allData, Features), MapOf(call.allData, Segments)),
                "initPubFlags")

InitPublishFlags ==
  /\ pc = "initPubFlags"
  /\ PublishFlags(makeFlagsPutEvent(MapOf(call.allData, Features)), "initPubPing")

InitPublishPing ==
  /\ pc = "initPubPing"
  /\ PublishPing(makePingEvent)

\* Delete, lines 107-112
RelayDelete(kind, key, version, ok) ==
  /\ Begin([NoCall EXCEPT !.op = "Delete", !.kind = kind, !.key = key, !.version = version],
           ok, StoreDelete(store, kind, key, version), "delPubAll")
  /\ UNCHANGED initialized

\* faulty variant: the kind is not looked at
DeletePublishAllAnyKind ==
  /\ pc = "delPubAll"
  /\ PublishAll(makeDeleteEvent(call.kind, call.key, call.version), "delPubFlags")

DeletePublishAll ==
  /\ pc = "delPubAll"
  /\ PublishAll(makeDeleteEvent(call.kind, call.key, call.version),
                IF call.kind = Features THEN "delPubFlags" ELSE "delPubPing")

DeletePublishFlags ==
  /\ pc = "delPubFlags"
  /\ PublishFlags(makeFlagsDeleteEvent(call.key, call.version), "delPubPing")

\* faulty variant: Delete returns without the ping
DeleteNoPing ==
  /\ pc = "delPubPing"
  /\ pc' = "idle"
  /\ ret' = "nil"
  /\ UNCHANGED <<store, initialized, call, nOps, allLog, flagsLog, pingLog, rp, hist, hb, rd>>

DeletePublishPing ==
  /\ pc = "delPubPing"
  /\ PublishPing(makePingEvent)

\* Upsert, lines 125-131
RelayUpsert(kind, key, version, ok) ==
  /\ Begin([NoCall EXCEPT !.op = "Upsert", !.kind = kind, !.key = key, !.version = version],
           ok, StoreUpsert(store, kind, Item(key, version, FALSE)), "upsGet")
  /\ UNCHANGED initialized

\* faulty variant: the ping is published also when the re-read item is nil
UpsertGetPingAnyway(ok) ==
  /\ pc = "upsGet"
  /\ IF ~ok
     THEN /\ pc' = "idle"
          /\ ret' = "StoreReadError"
          /\ call' = [call EXCEPT !.reread = "err"]
     ELSE /\ call' = [call EXCEPT !.newItem = StoreGet(store, call.kind, call.key),
                                  !.reread = IF StoreGet(store, call.kind, call.key) # {}
                                             THEN "item" ELSE "nil"]
          /\ pc' = IF call'.newItem # {} THEN "upsPubAll" ELSE "upsPubPing"
          /\ UNCHANGED ret
  /\ UNCHANGED <<store, initialized, nOps, allLog, flagsLog, pingLog, rp, hist, hb, rd>>

\* lines 133-139 (and 148 when newItem is nil): the re-read of the item; its
\* error is returned to the caller
UpsertGet(ok) ==
  /\ pc = "upsGet"
  /\ IF ~ok
     THEN /\ pc' = "idle"
          /\ ret' = "StoreReadError"
          /\ call' = [call EXCEPT !.reread = "err"]
     ELSE /\ call' = [call EXCEPT !.newItem = StoreGet(store, call.kind, call.key),
                                  !.reread = IF StoreGet(store, call.kind, call.key) # {}
                                             THEN "item" ELSE "nil"]
          /\ IF call'.newItem # {}
             THEN pc' = "upsPubAll" /\ UNCHANGED ret
             ELSE pc' = "idle" /\ ret' = "nil"
  /\ UNCHANGED <<store, initialized, nOps, allLog, flagsLog, pingLog, rp, hist, hb, rd>>

NewItem == CHOOSE i \in call.newItem : TRUE

\* faulty variant: the item of the request is published, not the one read back
UpsertPublishAllRequested ==
  /\ pc = "upsPubAll"
  /\ PublishAll(makeUpsertEvent(call.kind, Item(call.key, call.version, FALSE)),
                IF call.kind = Features THEN "upsPubFlags" ELSE "upsPubPing")

UpsertPublishAll ==
  /\ pc = "upsPubAll"
  /\ PublishAll(makeUpsertEvent(call.kind, NewItem),
                IF call.kind = Features THEN "upsPubFlags" ELSE "upsPubPing")

\* faulty variant: the item of the request goes to the flags channel
UpsertPublishFlagsRequested ==
  /\ pc = "upsPubFlags"
  /\ PublishFlags(makeFlagsUpsertEvent(Item(call.key, call.version, FALSE)), "upsPubPing")

UpsertPublishFlags ==
  /\ pc = "upsPubFlags"
  /\ PublishFlags(makeFlagsUpsertEvent(NewItem), "upsPubPing")

UpsertPublishPing ==
  /\ pc = "upsPubPing"
  /\ PublishPing(makePingEvent)

\* ----------------------------------------------------------------- replay
\* The mutator has written the store and has not yet published the event of
\* that write on the channel.
Pending(channel) ==
  /\ call.applied
  /\ \/ pc \in {"initPubAll", "delPubAll", "upsGet", "upsPubAll"}
        /\ (channel = "all" \/ call.op = "Init" \/ call.kind = Features)
     \/ pc \in {"initPubFlags", "delPubFlags", "upsPubFlags"} /\ channel = "flags"

MutatorLeft ==
  UNCHANGED <<store, initialized, pc, call, ret, nOps, allLog, flagsLog, pingLog, hist, hb, rd>>

\* Replay(channel, id) of one of the three repositories: the output channel is
\* made and the goroutine started.  The server has registered the subscriber
\* before it asks the repository for the replay.
Replay(r, channel) ==
  /\ rp[r].pc = "idle"
  /\ rp' = [rp EXCEPT ![r] = [@ EXCEPT !.pc = IF channel = "ping" THEN "send" ELSE "check",
                                       !.channel = channel,
                                       !.initAtInvoke = initialized,
                                       !.quiet = (pc = "idle")]]
  /\ MutatorLeft

\* faulty variant: the result of Initialized() is not looked at
ReplayInitializedIgnored(r) ==
  /\ rp[r].pc = "check"
  /\ rp' = [rp EXCEPT ![r] = [@ EXCEPT !.pc = "readFlags",
                                       !.sawInit = initialized,
                                       !.sawPending = @ \/ Pending(rp[r].channel)]]
  /\ MutatorLeft

\* r.relayStore.Initialized(), lines 161 and 179
ReplayInitialized(r) ==
  /\ rp[r].pc = "check"
  /\ rp' = [rp EXCEPT ![r] = [@ EXCEPT !.pc = IF initialized THEN "readFlags" ELSE "close",
                                       !.sawInit = initialized,
                                       !.sawPending = @ \/ Pending(rp[r].channel)]]
  /\ MutatorLeft

\* faulty variant: on a read error the goroutine ends without closing out
ReplayAllFeaturesNoClose(r, ok) ==
  /\ rp[r].pc = "readFlags"
  /\ rp' = [rp EXCEPT ![r] =
        IF ok
        THEN [@ EXCEPT !.pc = IF rp[r].channel = "flags" THEN "send" ELSE "readSegments",
                       !.flags = StoreAll(store, Features),
                       !.flagsSeq = nOps,
                       !.sawPending = @ \/ Pending(rp[r].channel)]
        ELSE [@ EXCEPT !.pc = "done", !.readErr = TRUE]]
  /\ MutatorLeft

\* r.relayStore.All(ld.Features), lines 162-166 and 180-184
ReplayAllFeatures(r, ok) ==
  /\ rp[r].pc = "readFlags"
  /\ rp' = [rp EXCEPT ![r] =
        IF ok
        THEN [@ EXCEPT !.pc = IF rp[r].channel = "flags" THEN "send" ELSE "readSegments",
                       !.flags = StoreAll(store, Features),
                       !.flagsSeq = nOps,
                       !.sawPending = @ \/ Pending(rp[r].channel)]
        ELSE [@ EXCEPT !.pc = "close", !.readErr = TRUE]]
  /\ MutatorLeft

\* faulty variant: the flag kind is read a second time
ReplayAllSegmentsWrongKind(r, ok) ==
  /\ rp[r].pc = "readSegments"
  /\ rp' = [rp EXCEPT ![r] =
        IF ok
        THEN [@ EXCEPT !.pc = "send",
                       !.segments = StoreAll(store, Features),
                       !.segmentsSeq = nOps,
                       !.sawPending = @ \/ Pending(rp[r].channel)]
        ELSE [@ EXCEPT !.pc = "close", !.readErr = TRUE]]
  /\ MutatorLeft

\* r.relayStore.All(ld.Segments), lines 185-188
ReplayAllSegments(r, ok) ==
  /\ rp[r].pc = "readSegments"
  /\ rp' = [rp EXCEPT ![r] =
        IF ok
        THEN [@ EXCEPT !.pc = "send",
                       !.segments = StoreAll(store, Segments),
                       !.segmentsSeq = nOps,
                       !.sawPending = @ \/ Pending(rp[r].channel)]
        ELSE [@ EXCEPT !.pc = "close", !.readErr = TRUE]]
  /\ MutatorLeft

ReplayEvent(r) ==
  CASE rp[r].channel = "all" -> makePutEvent(rp[r].flags, rp[r].segments)
    [] rp[r].channel = "flags" -> makeFlagsPutEvent(rp[r].flags)
    [] OTHER -> makePingEvent

\* out <- event, lines 167, 189 and 203: the subscriber's connection receives it
ReplaySend(r) ==
  /\ rp[r].pc = "send"
  /\ rp' = [rp EXCEPT ![r] = [@ EXCEPT !.pc = "close",
                                       !.out = Append(@, ReplayEvent(r))]]
  /\ MutatorLeft

\* defer close(out)
ReplayClose(r) ==
  /\ rp[r].pc = "close"
  /\ rp' = [rp EXCEPT ![r] = [@ EXCEPT !.pc = "done", !.closed = TRUE]]
  /\ MutatorLeft

\* -------------------------------------------------------------- heartbeat
Counted(n) == IF n < MaxTicks + 1 THEN n + 1 ELSE n

\* publisher.PublishComment(relay.keys(), "")
PublishComment(publisher, next) ==
  /\ hb' = [hb EXCEPT ![publisher] = [n |-> Counted(@.n), channels |-> keys, text |-> ""],
                      !.pc = next,
                      !.beats = IF next = "wait" THEN Counted(@) ELSE @]
  /\ UNCHANGED <<store, initialized, pc, call, ret, nOps, allLog, flagsLog, pingLog, rp, hist, rd>>

\* heartbeat(), lines 74-78
HeartbeatAll == hb.pc = "beatAll" /\ PublishComment("all", "beatFlags")

\* faulty variant: the comment goes to the all publisher a second time
HeartbeatFlagsWrongPublisher == hb.pc = "beatFlags" /\ PublishComment("all", "beatPing")

HeartbeatFlags == hb.pc = "beatFlags" /\ PublishComment("flags", "beatPing")

HeartbeatPing == hb.pc = "beatPing" /\ PublishComment("ping", "wait")

\* <-t.C, line 62: the ticker's next tick arrives
HeartbeatTick ==
  /\ hb.pc = "wait"
  /\ hb' = [hb EXCEPT !.pc = "beatAll", !.ticks = IF @ < MaxTicks THEN @ + 1 ELSE @]
  /\ UNCHANGED <<store, initialized, pc, call, ret, nOps, allLog, flagsLog, pingLog, rp, hist, rd>>

HeartbeatNext == HeartbeatAll \/ HeartbeatFlags \/ HeartbeatPing \/ HeartbeatTick

\* ------------------------------------------------------------------ reads
ReadLeft ==
  UNCHANGED <<store, initialized, pc, call, ret, nOps, allLog, flagsLog, pingLog, rp, hist, hb>>

\* Get, lines 81-83; ok = FALSE is the store returning an error
RelayGet(kind, key, ok) ==
  /\ rd' = [NoRead EXCEPT !.op = "Get", !.kind = kind, !.key = key,
                          !.storeErr = ~ok, !.err = ~ok,
                          !.item = IF ok THEN StoreGet(store, kind, key) ELSE {}]
  /\ ReadLeft

\* faulty variant: the store's error is dropped
RelayAllNoError(kind, ok) ==
  /\ rd' = [NoRead EXCEPT !.op = "All", !.kind = kind,
                          !.storeErr = ~ok, !.err = FALSE,
                          !.items = IF ok THEN StoreAll(store, kind) ELSE EmptyMap]
  /\ ReadLeft

\* All, lines 86-88
RelayAll(kind, ok) ==
  /\ rd' = [NoRead EXCEPT !.op = "All", !.kind = kind,
                          !.storeErr = ~ok, !.err = ~ok,
                          !.items = IF ok THEN StoreAll(store, kind) ELSE EmptyMap]
  /\ ReadLeft

\* Initialized, lines 152-154
RelayInitialized ==
  /\ rd' = [NoRead EXCEPT !.op = "Initialized", !.flag = initialized]
  /\ ReadLeft

ReadNext ==
  \/ \E kind \in Kinds, key \in Keys, ok \in BOOLEAN : RelayGet(kind, key, ok)
  \/ \E kind \in Kinds, ok \in BOOLEAN : RelayAll(kind, ok)
  \/ RelayInitialized

\* ---------------------------------------------------------- specification
\* the ingestion path: Init, Delete and Upsert, one call at a time
MutatorNext ==
  \/ \E allData \in AllDatas, ok \in BOOLEAN : RelayInit(allData, ok)
  \/ InitPublishAll
  \/ InitPublishFlags
  \/ InitPublishPing
  \/ \E kind \in Kinds, key \in Keys, version \in Versions, ok \in BOOLEAN :
        RelayDelete(kind, key, version, ok)
  \/ DeletePublishAll
  \/ DeletePublishFlags
  \/ DeletePublishPing
  \/ \E kind \in Kinds, key \in Keys, version \in Versions, ok \in BOOLEAN :
        RelayUpsert(kind, key, version, ok)
  \/ \E ok \in BOOLEAN : UpsertGet(ok)
  \/ UpsertPublishAll
  \/ UpsertPublishFlags
  \/ UpsertPublishPing

Next ==
  \/ MutatorNext
  \/ \E r \in DOMAIN rp, channel \in {"all", "flags", "ping"} : Replay(r, channel)
  \/ \E r \in DOMAIN rp : ReplayInitialized(r)
  \/ \E r \in DOMAIN rp, ok \in BOOLEAN : ReplayAllFeatures(r, ok)
  \/ \E r \in DOMAIN rp, ok \in BOOLEAN : ReplayAllSegments(r, ok)
  \/ \E r \in DOMAIN rp : ReplaySend(r)
  \/ \E r \in DOMAIN rp : ReplayClose(r)

Spec == Init /\ [][Next]_vars

\* The ingestion path alone, with the history of its writes and Publish calls.
InitOrder ==
  /\ hist = [NoHist EXCEPT !.on = TRUE]
  /\ hb = Heartbeat(0)
  /\ Constructed

SpecOrder == InitOrder /\ [][MutatorNext]_vars

\* The ingestion path and the heartbeat goroutine, for any configured interval.
\* faulty variant: the loop waits for a tick before its first heartbeat
InitHeartbeatTickFirst ==
  /\ hist = NoHist
  /\ \E i \in {-1, 0, 1} : hb = [Heartbeat(i) EXCEPT !.pc = IF i > 0 THEN "wait" ELSE "off"]
  /\ Constructed

InitHeartbeat ==
  /\ hist = NoHist
  /\ \E i \in {-1, 0, 1} : hb = Heartbeat(i)
  /\ Constructed

NextHeartbeat == MutatorNext \/ HeartbeatNext

\* The goroutine keeps being scheduled and the ticker keeps ticking.
SpecHeartbeat == InitHeartbeat /\ [][NextHeartbeat]_vars /\ WF_vars(HeartbeatNext)

\* The ingestion path and a replay, with the history of the store's contents.
SpecSnapshot == InitOrder /\ [][Next]_vars

\* Two subscribers connect while the ingestion path makes its last call.
Subscribers == {"r1", "r2"}

InitReplays ==
  /\ hist = NoHist
  /\ hb = Heartbeat(0)
  /\ rd = NoRead
  /\ store = [k \in Kinds |-> EmptyMap]
  /\ initialized = FALSE
  /\ pc = "idle"
  /\ call = NoCall
  /\ ret = "nil"
  /\ nOps = MaxOps - 1
  /\ allLog = <<>>
  /\ flagsLog = <<>>
  /\ pingLog = <<>>
  /\ rp = [r \in Subscribers |-> IdleReplay]

\* what the goroutine of a replay does once Replay has started it
ReplayStep(r) ==
  \/ ReplayInitialized(r)
  \/ \E ok \in BOOLEAN : ReplayAllFeatures(r, ok)
  \/ \E ok \in BOOLEAN : ReplayAllSegments(r, ok)
  \/ ReplaySend(r)
  \/ ReplayClose(r)

\* Every replay goroutine keeps being scheduled, and the connection that asked
\* for the replay receives from out.
SpecReplays ==
  InitReplays /\ [][Next]_vars /\ \A r \in Subscribers : WF_vars(ReplayStep(r))

\* The ingestion path and callers of Get, All and Initialized.
NextRead == MutatorNext \/ ReadNext

SpecRead == Init /\ [][NextRead]_vars

\* ------------------------------------------------------------------ claims
\* The last call has returned.
Returned(op) == pc = "idle" /\ call.op = op
Succeeded(op) == Returned(op) /\ ret = "nil"
NothingPublished == allLog = <<>> /\ flagsLog = <<>> /\ pingLog = <<>>
OnePing == Len(pingLog) = 1 /\ pingLog[1].event = [type |-> "ping", data |-> " "]
\* what a Get of the call's key returns now
GetNow == StoreGet(store, call.kind, call.key)

\* C1: when the store's write returns an error, Init, Upsert and Delete return
\* that error and make no Publish call on the all, flags or ping publisher.
C1_WriteErrorPublishesNothing ==
  (pc = "idle" /\ call.writeErr) => (ret = "StoreWriteError" /\ NothingPublished)

C1_Witness ==
  /\ call.writeErr /\ call.op = "Upsert" /\ pc = "idle" /\ nOps = 2
  /\ ret = "StoreWriteError" /\ initialized /\ NothingPublished

\* C2: a successful Init(allData) publishes exactly one event per channel: on
\* all a put with the input's flag map and segment map, on flags a put with the
\* input's flag map, on ping a ping.
C2_InitPublishesSnapshot ==
  Succeeded("Init") =>
    /\ Len(allLog) = 1
    /\ allLog[1].event.type = "put"
    /\ DOMAIN allLog[1].event.data = {"flags", "segments"}
    /\ allLog[1].event.data.flags = MapOf(call.allData, Features)
    /\ allLog[1].event.data.segments = MapOf(call.allData, Segments)
    /\ Len(flagsLog) = 1
    /\ flagsLog[1].event = [type |-> "put", data |-> MapOf(call.allData, Features)]
    /\ OnePing

C2_Witness ==
  /\ Succeeded("Init")
  /\ Len(allLog) = 1 /\ Len(flagsLog) = 1 /\ Len(pingLog) = 1
  /\ DOMAIN call.allData = Kinds
  /\ \E k \in Keys : /\ k \in DOMAIN call.allData[Features]
                      /\ k \in DOMAIN call.allData[Segments]
                      /\ call.allData[Features][k] # call.allData[Segments][k]
                      /\ allLog[1].event.data.flags[k] = call.allData[Features][k]

\* What C3 says of a flag upsert: a patch on all with path /flags/<key>, a patch
\* on flags with path /<key>, both carrying what Get returns.
FlagPatchPublished ==
  /\ Len(allLog) = 1
  /\ allLog[1].event.type = "patch"
  /\ allLog[1].event.path = "/flags/" \o call.key
  /\ {allLog[1].event.data} = GetNow
  /\ Len(flagsLog) = 1
  /\ flagsLog[1].event.type = "patch"
  /\ flagsLog[1].event.path = "/" \o call.key
  /\ {flagsLog[1].event.data} = GetNow

\* C3 as stated: every successful Upsert of a flag publishes the patch on all
\* and on flags, with data equal to what a subsequent Get returns.
C3_Original == (Succeeded("Upsert") /\ call.kind = Features) => FlagPatchPublished

\* C3 as amended: every successful Upsert of a flag after which Get returns
\* an item publishes the patch on all and on flags, with that item as data; when
\* Get returns nil (the key is tombstoned) the Upsert publishes nothing.
C3_UpsertFlagPublishesStored ==
  (Succeeded("Upsert") /\ call.kind = Features) =>
    IF GetNow # {} THEN FlagPatchPublished ELSE NothingPublished

\* a stale upsert (the store kept its newer item), published with the stored item
C3_Witness ==
  /\ Succeeded("Upsert") /\ call.kind = Features
  /\ FlagPatchPublished
  /\ allLog[1].event.data.version > call.version

\* C4: after a successful Delete, the delete event's version is the version
\* the store holds for the key.
C4_DeleteVersionIsStoreVersion ==
  Succeeded("Delete") =>
    /\ Len(allLog) = 1
    /\ allLog[1].event.type = "delete"
    /\ allLog[1].event.version = store[call.kind][call.key].version

\* C5 as stated: every successful Init, Upsert or Delete publishes exactly one
\* ping.
C5_Original ==
  (pc = "idle" /\ call.op # "none" /\ ret = "nil") => OnePing

\* C5 as amended: every successful Init or Delete, and every successful Upsert
\* after which Get returns an item, publishes exactly one ping; a successful
\* Upsert whose re-read returns nil publishes no ping.
C5_SuccessPingsOnce ==
  (pc = "idle" /\ call.op # "none" /\ ret = "nil") =>
    IF call.op = "Upsert" /\ GetNow = {} THEN pingLog = <<>> ELSE OnePing

C5_Witness ==
  /\ Succeeded("Delete") /\ call.kind = Segments /\ ~call.applied /\ OnePing

\* every patch or delete on the flags channel comes from a call on the flag kind
FlagsEventsFromFlags ==
  \A i \in DOMAIN flagsLog :
    flagsLog[i].event.type \in {"patch", "delete"} => flagsLog[i].kind = Features

NonFlagCall == call.op \in {"Upsert", "Delete"} /\ call.kind = Segments

\* C6 as stated: a successful Upsert or Delete on a non-flag kind publishes
\* one event on all and none on flags; every patch or delete on flags was
\* caused by a call on the flag kind.
C6_Original ==
  /\ (pc = "idle" /\ NonFlagCall /\ ret = "nil") => (Len(allLog) = 1 /\ flagsLog = <<>>)
  /\ FlagsEventsFromFlags

\* C6 as amended: a successful Delete on a non-flag kind, and a successful
\* Upsert on a non-flag kind after which Get returns an item, publishes one
\* event on all and none on flags; a successful Upsert whose re-read returns nil
\* publishes nothing; every patch or delete on flags was caused by a call on the
\* flag kind.
C6_NonFlagOnlyOnAll ==
  /\ (pc = "idle" /\ NonFlagCall /\ ret = "nil") =>
        /\ flagsLog = <<>>
        /\ IF call.op = "Upsert" /\ GetNow = {}
           THEN allLog = <<>>
           ELSE /\ Len(allLog) = 1
                /\ allLog[1].event.type = (IF call.op = "Upsert" THEN "patch" ELSE "delete")
                /\ allLog[1].event.path = "/segments/" \o call.key
  /\ NonFlagCall => flagsLog = <<>>
  /\ FlagsEventsFromFlags

C6_Witness ==
  /\ Succeeded("Delete") /\ call.kind = Segments
  /\ Len(allLog) = 1 /\ flagsLog = <<>> /\ Len(pingLog) = 1

\* The replay goroutine of r has finished.
Done(r) == rp[r].pc = "done"
DataReplay(r) == rp[r].channel \in {"all", "flags"}
PingReplayOnce(r) ==
  (Done(r) /\ rp[r].channel = "ping") =>
    (rp[r].out = <<[type |-> "ping", data |-> " "]>> /\ rp[r].closed)

\* C7 as stated: a Replay invoked while the store is not initialized emits
\* nothing on the all and the flags repository and closes its stream; the ping
\* repository's Replay emits exactly one ping, initialized or not.
C7_Original ==
  \A r \in Replays :
    /\ (Done(r) /\ DataReplay(r) /\ ~rp[r].initAtInvoke) => (rp[r].out = <<>> /\ rp[r].closed)
    /\ PingReplayOnce(r)

\* C7 as amended: a Replay whose Initialized() call finds the store not
\* initialized emits nothing on the all and the flags repository and closes its
\* stream; the ping repository's Replay emits exactly one ping, initialized or
\* not.
C7_UninitializedReplayEmitsNothing ==
  \A r \in Replays :
    /\ (Done(r) /\ DataReplay(r) /\ ~rp[r].sawInit) => (rp[r].out = <<>> /\ rp[r].closed)
    /\ (DataReplay(r) /\ rp[r].pc \in {"close", "done"} /\ ~rp[r].sawInit) => rp[r].out = <<>>
    /\ PingReplayOnce(r)

C7_Witness ==
  \E r \in Replays :
    /\ Done(r) /\ rp[r].channel = "all" /\ ~rp[r].sawInit
    /\ rp[r].out = <<>> /\ rp[r].closed
    /\ initialized /\ store[Features] # EmptyMap

\* The payload of the put r emitted is the store's contents now.
PayloadIsStore(r) ==
  IF rp[r].channel = "all"
  THEN /\ rp[r].out[1].data.flags = StoreAll(store, Features)
       /\ rp[r].out[1].data.segments = StoreAll(store, Segments)
  ELSE rp[r].out[1].data = StoreAll(store, Features)

OnePut(r) ==
  /\ Len(rp[r].out) = 1
  /\ rp[r].out[1].type = "put"
  /\ rp[r].closed
  /\ rp[r].quiet => PayloadIsStore(r)

\* C8 as stated: a Replay invoked after the store is initialized emits
\* exactly one put and terminates; with no mutation concurrent with the replay
\* the payload is the store's All(flags) and All(segments) on the all repository
\* and All(flags) on the flags repository.
C8_Original ==
  \A r \in Replays : (Done(r) /\ DataReplay(r) /\ rp[r].initAtInvoke) => OnePut(r)

\* C8 as amended: a Replay invoked after the store is initialized emits
\* exactly one put, or nothing when one of its store reads (All) returns an
\* error, and terminates; with no mutation concurrent with the replay the put's
\* payload is the store's All(flags) and All(segments) on the all repository and
\* All(flags) on the flags repository.
C8_InitializedReplayEmitsOnePut ==
  \A r \in Replays :
    (Done(r) /\ DataReplay(r) /\ rp[r].initAtInvoke) =>
      IF rp[r].readErr THEN rp[r].out = <<>> /\ rp[r].closed ELSE OnePut(r)

C8_Witness ==
  \E r \in Replays :
    /\ Done(r) /\ rp[r].channel = "all" /\ rp[r].initAtInvoke /\ rp[r].quiet
    /\ ~rp[r].readErr /\ OnePut(r)
    /\ nOps = 2 /\ call.op = "Upsert" /\ call.applied
    /\ rp[r].out[1].data.flags # EmptyMap
    /\ rp[r].out[1].data.segments # EmptyMap
    /\ rp[r].out[1].data.flags # rp[r].out[1].data.segments

\* C9: no read of a Replay goroutine (Initialized, All) sees the store between
\* a write of Init, Upsert or Delete and the Publish of that write's event.
C9_ReplayNeverSeesUnpublishedWrite ==
  \A r \in Replays : ~rp[r].sawPending

\* The event of call l is part of what the snapshot r read shows.
InSnapshot(r, l) ==
  IF l.op = "Init"
  THEN l.seq <= rp[r].flagsSeq \/ (rp[r].channel = "all" /\ l.seq <= rp[r].segmentsSeq)
  ELSE IF l.kind = Features THEN l.seq <= rp[r].flagsSeq ELSE l.seq <= rp[r].segmentsSeq

LastCall == [seq |-> call.seq, op |-> call.op, kind |-> call.kind]
PublishedOn(channel) == IF channel = "all" THEN allLog # <<>> ELSE flagsLog # <<>>

\* C10: a subscriber that got its snapshot receives as live events exactly the
\* mutations the snapshot does not show: none is duplicated, none is missed.
C10_NoMissedNoDuplicated ==
  \A r \in Replays :
    (Done(r) /\ DataReplay(r) /\ Len(rp[r].out) = 1 /\ pc = "idle") =>
      /\ \A l \in rp[r].live : ~InSnapshot(r, l)
      /\ (PublishedOn(rp[r].channel) /\ ~InSnapshot(r, LastCall)) => LastCall \in rp[r].live

\* ---- claims about the order of the Publish calls (SpecOrder)
Channels == {"all", "flags", "ping"}
WriteSeqs == {hist.writes[i].seq : i \in DOMAIN hist.writes}

\* C11: on each channel the Publish calls are made in the order in which the
\* store writes they belong to succeeded; in particular the delete event of a
\* Delete is never published before the patch event of an Upsert of the same
\* key whose store write came first.
C11_PublishInWriteOrder ==
  /\ \A i, j \in DOMAIN hist.writes : i < j => hist.writes[i].seq < hist.writes[j].seq
  /\ \A c \in Channels :
       /\ \A i \in DOMAIN hist[c] : hist[c][i].seq \in WriteSeqs
       /\ \A i, j \in DOMAIN hist[c] : i < j => hist[c][i].seq < hist[c][j].seq
  /\ \A c \in {"all", "flags"} : \A i, j \in DOMAIN hist[c] :
       (/\ hist[c][i].type = "delete" /\ hist[c][j].type = "patch"
        /\ hist[c][i].kind = hist[c][j].kind /\ hist[c][i].key = hist[c][j].key
        /\ hist[c][j].seq < hist[c][i].seq) => j < i

\* an Upsert's patch, then the delete of the same flag, on both channels
C11_Witness ==
  /\ pc = "idle" /\ Len(hist.all) = 2 /\ Len(hist.flags) = 2 /\ Len(hist.ping) = 2
  /\ hist.all[1].type = "patch" /\ hist.all[2].type = "delete"
  /\ hist.flags[1].type = "patch" /\ hist.flags[2].type = "delete"
  /\ hist.all[1].key = hist.all[2].key
  /\ hist.all[1].seq < hist.all[2].seq

\* ---- claims about Upsert's re-read (Spec)
\* Upsert's store write succeeded and its re-read ended as said.
Reread(how) == pc = "idle" /\ call.op = "Upsert" /\ call.reread = how

\* C12: a failed write is the only error Init, Upsert and Delete return; when
\* Upsert's write succeeds and the re-read fails, nothing is published, the
\* write stays in the store and Upsert returns no error.
C12_OnlyWriteErrorsSurface ==
  /\ (pc = "idle" /\ ret # "nil") => (call.writeErr /\ ret = "StoreWriteError")
  /\ Reread("err") =>
       /\ ret = "nil"
       /\ NothingPublished
       /\ call.applied => store[call.kind][call.key] = Item(call.key, call.version, FALSE)

PatchesOf(log) == {log[i].event : i \in {j \in DOMAIN log : log[j].event.type = "patch"}}

\* C16: every patch published on all or flags carries the item the store
\* holds for the key since the re-read, which for a stale Upsert is the item
\* already stored and not the requested one.
C16_PatchCarriesStoredItem ==
  \A e \in PatchesOf(allLog) \cup PatchesOf(flagsLog) :
    /\ call.op = "Upsert"
    /\ call.key \in DOMAIN store[call.kind]
    /\ e.data = store[call.kind][call.key]
    /\ {e.data} = call.newItem
    /\ e.data.version >= call.version

\* a stale Upsert of a flag: both patches carry the newer stored version
C16_Witness ==
  /\ Succeeded("Upsert") /\ call.kind = Features /\ ~call.applied
  /\ PatchesOf(allLog) # {} /\ PatchesOf(flagsLog) # {}
  /\ \A e \in PatchesOf(allLog) \cup PatchesOf(flagsLog) : e.data.version > call.version

\* C17: when Upsert's write succeeds and the re-read returns a nil item,
\* Upsert returns success and publishes nothing on all, flags or ping.
C17_NilRereadPublishesNothing ==
  Reread("nil") => (ret = "nil" /\ NothingPublished)

\* the key is tombstoned with a version not older than the item's
C17_Witness ==
  /\ Reread("nil") /\ ret = "nil" /\ NothingPublished
  /\ call.key \in DOMAIN store[call.kind]
  /\ store[call.kind][call.key].deleted
  /\ store[call.kind][call.key].version >= call.version

\* C18: a read error while the event of the all channel is derived does not
\* keep the flags channel from getting its event: an Upsert of a flag whose
\* re-read fails still publishes the patch on flags.
C18_ReadErrorKeepsFlagsEvent ==
  (Reread("err") /\ call.kind = Features) =>
    (Len(flagsLog) = 1 /\ flagsLog[1].event.type = "patch")

\* ---- claims about the heartbeat (SpecHeartbeat)
\* C13: with a positive interval the first heartbeat is made before any tick,
\* one more after every tick, and heartbeats go on forever, whatever the
\* ingestion path does.
C13_HeartbeatAtStartAndEveryTick ==
  /\ [](hb.interval > 0 =>
          /\ hb.pc # "off"
          /\ hb.pc = "wait" => hb.beats = hb.ticks + 1
          /\ hb.ticks = 0 => hb.pc # "beatAll" \/ hb.beats = 0)
  /\ (hb.interval > 0 => ([]<>(hb.pc = "beatAll") /\ []<>(hb.pc = "wait")))

C13_Witness ==
  /\ hb.interval > 0 /\ hb.pc = "wait" /\ hb.ticks = 0 /\ hb.beats = 1
  /\ pc = "idle" /\ ret = "StoreWriteError"

CommentOk(c) == c.channels = keys /\ c.text = ""

\* C14: with an interval <= 0 no PublishComment call is ever made; each
\* heartbeat makes exactly one PublishComment call on each of the three
\* publishers, with the API key as the only channel and an empty text, and no
\* Publish call and no store write.
C14_HeartbeatCommentsOnly ==
  /\ [](hb.interval <= 0 => (hb.pc = "off" /\ hb.all.n = 0 /\ hb.flags.n = 0 /\ hb.ping.n = 0))
  /\ [](hb.pc = "wait" => (/\ hb.all.n = hb.beats /\ hb.flags.n = hb.beats
                           /\ hb.ping.n = hb.beats
                           /\ CommentOk(hb.all) /\ CommentOk(hb.flags) /\ CommentOk(hb.ping)))
  /\ [](hb.pc = "beatFlags" => (hb.all.n = Counted(hb.flags.n) /\ hb.flags.n = hb.ping.n))
  /\ [](hb.pc = "beatPing" => (hb.all.n = hb.flags.n /\ hb.flags.n = Counted(hb.ping.n)))
  /\ [][hb' # hb => UNCHANGED <<store, initialized, allLog, flagsLog, pingLog>>]_vars

C14_Witness ==
  /\ hb.interval > 0 /\ hb.pc = "wait" /\ hb.beats = 2
  /\ hb.all.n = 2 /\ hb.flags.n = 2 /\ hb.ping.n = 2
  /\ initialized /\ Len(pingLog) = 1

\* ---- claims about the reads (SpecRead)
\* C15: Get, All and Initialized return what the store returns, leave the
\* store as it is and make no Publish or PublishComment call.
C15_ReadsPassThrough ==
  [][rd' # rd =>
       /\ UNCHANGED <<store, initialized, allLog, flagsLog, pingLog, hb>>
       /\ rd'.err = rd'.storeErr
       /\ rd'.op = "Get" => rd'.item = (IF rd'.storeErr THEN {} ELSE StoreGet(store, rd'.kind, rd'.key))
       /\ rd'.op = "All" => rd'.items = (IF rd'.storeErr THEN EmptyMap ELSE StoreAll(store, rd'.kind))
       /\ rd'.op = "Initialized" => rd'.flag = initialized]_vars

\* a Get that returned a stored segment while an Upsert was publishing
C15_Witness ==
  /\ rd.op = "Get" /\ rd.kind = Segments /\ rd.item # {} /\ ~rd.err
  /\ rd.item = StoreGet(store, Segments, rd.key)
  /\ pc = "upsPubAll"

\* ---- claims about concurrent replays (SpecReplays)
ReplayMoved(r) == rp'[r].pc # rp[r].pc \/ rp'[r].out # rp[r].out \/ rp'[r].closed # rp[r].closed

\* C19: every replay, on any channel and next to other replays and to a
\* mutation, puts at most one event on its own stream and then closes it,
\* also after a store read error; a replay step changes no other replay's
\* stream, makes no Publish call and writes nothing to the store.
C19_ReplayEmitsOnceAndCloses ==
  /\ [](\A r \in DOMAIN rp :
          /\ Len(rp[r].out) <= 1
          /\ rp[r].closed <=> rp[r].pc = "done"
          /\ rp[r].readErr => rp[r].out = <<>>)
  /\ [][\A r \in DOMAIN rp :
          /\ rp[r].closed => (rp'[r].closed /\ rp'[r].out = rp[r].out)
          /\ ReplayMoved(r) =>
                /\ UNCHANGED <<store, initialized, allLog, flagsLog, pingLog, hb>>
                /\ \A q \in DOMAIN rp \ {r} : ~ReplayMoved(q)]_vars
  /\ \A r \in Subscribers : (rp[r].pc # "idle") ~> rp[r].closed

\* both replays are closed, one after a read error and one after its put,
\* while the mutation is still publishing
C19_Witness ==
  /\ rp["r1"].closed /\ rp["r1"].readErr /\ rp["r1"].out = <<>>
  /\ rp["r2"].closed /\ rp["r2"].channel = "all" /\ Len(rp["r2"].out) = 1
  /\ pc \notin {"idle"}

\* ---- claims about the replayed snapshot (SpecSnapshot)
\* every contents the store has held: empty at construction, then after each write
StoresHeld == {[k \in Kinds |-> EmptyMap]} \cup {hist.writes[i].store : i \in DOMAIN hist.writes}

\* C20: the put of an All-channel replay carries the flags and the segments
\* that the store held together at one point in time.
C20_ReplayPutIsOneStoreState ==
  \A r \in DOMAIN rp :
    (rp[r].channel = "all" /\ Len(rp[r].out) = 1) =>
      \E s \in StoresHeld :
        rp[r].out[1] = makePutEvent(StoreAll(s, Features), StoreAll(s, Segments))
====
